---- MODULE Spec2Model ----
(***************************************************************************)
(* A model of the geometric primitives of OpenCSP (Vxy, LineXY), of the    *)
(* RANSAC line fit LineXY.fit_from_points, of the pose solver of the       *)
(* deflectometry spatial processing, and of the camera classes             *)
(* ImageAcquisitionAbstract and ImageAcquisition (DCAM mono).              *)
(*                                                                         *)
(* Numbers.  Coordinates of input points and input line coefficients are   *)
(* integers.  A value the code obtains by dividing by a vector magnitude   *)
(* is kept exactly as a pair (n, m2) that stands for n / sqrt(m2); m2 = 0  *)
(* is the IEEE result of a division by a zero magnitude (0/0 = nan,        *)
(* n/0 = +-inf for n # 0), which numpy produces with a warning and without *)
(* raising.                                                                *)
(***************************************************************************)
EXTENDS Integers, Sequences, FiniteSets, TLC

VARIABLES
    lineA,      \* a LineXY object (self), or NoLine
    lout,       \* outcome of the last LineXY operation
    vxy,        \* the _data of a Vxy container
    vout,       \* outcome of the last Vxy operation
    vcalls,     \* number of operations called on the container since Vxy(data)
    fit,        \* fit[w]: the frame of worker w's call of LineXY.fit_from_points
    np_global,  \* numpy's global generator: its state and the draws made from it
    memo,       \* a completed call of fit_from_points, remembered for comparison
    pose,       \* the pose solver: its state, iteration, pose and residual errors
    ptrace,     \* history: the states the pose solver has visited, with the iteration
    registry,   \* ImageAcquisitionAbstract._instances and ._next_instance_idx
    cameras,    \* the camera objects constructed, by identity 1, 2, ...
    cout,       \* outcome of the last camera operation
    chist,      \* history: chist[idx + 1] is the camera first registered under idx
    cal,        \* the frame of a call of calibrate_exposure
    ss          \* the SensitiveStringsSearcher objects searching: the one called,
                \* then the one it made for an HDF5 file

lineVars == <<lineA, lout>>
vxyVars == <<vxy, vout, vcalls>>
fitVars == <<fit, np_global, memo>>
poseVars == <<pose, ptrace>>
camVars == <<registry, cameras, cout, chist>>
vars == <<lineA, lout, vxy, vout, vcalls, fit, np_global, memo, pose, ptrace,
          registry, cameras, cout, chist, cal, ss>>

(***************************************************************************)
(* Bounds of the model.                                                    *)
(***************************************************************************)
MaxCoef == 1        \* arguments A and B of LineXY(A, B, C): -MaxCoef..MaxCoef
MaxOffset == 1      \* argument C of LineXY(A, B, C): -MaxOffset..MaxOffset
MaxCoord == 1       \* coordinates of the points of a Vxy: 0..MaxCoord
MaxVecs == 2        \* a Vxy container of the Vxy operations holds 1..MaxVecs vectors
MaxCalls == 1       \* operations called on one Vxy container
MaxExtraPts == 1    \* fit_from_points is called with 14..15 + MaxExtraPts points
MaxSeed == 1        \* seeds 0..MaxSeed
MaxNeighborDist == 2    \* neighbor_dist 0..MaxNeighborDist
MaxGlobalDraws == 1 \* draws other code makes from numpy's global generator
MaxPoseVal == 1     \* rotations and translations of the pose solver: 0..MaxPoseVal
MaxErr == 2         \* residual errors of the pose solver: 0..MaxErr
PoseTol == 1        \* the pose solver's tolerance: an error below PoseTol is small enough
PoseIterCap == 3    \* the pose solver's cap on the refinement iterations
MaxDevices == 2     \* cameras connected: EnumerateDevices() finds MaxDevices devices
MaxCams == 3        \* camera objects registered
MaxOnClose == 2     \* entries of a camera's on_close list
MaxCalValues == 4   \* shutter_cal_values holds 1..MaxCalValues exposure values
MaxExposure == 3    \* the exposure values are in 1..MaxExposure
MaxFiles == 3       \* files of the searched directory
MaxInner == 1       \* files an HDF5 file is unzipped to
MaxAllowed == 1     \* rows of the allowed-binary-files CSV before a run
MaxCached == 1      \* files the cleared-files cache names before a run

Abs(x) == IF x < 0 THEN -x ELSE x
Sgn(x) == IF x < 0 THEN -1 ELSE IF x = 0 THEN 0 ELSE 1
Coefs == (0 - MaxCoef)..MaxCoef
Offsets == (0 - MaxOffset)..MaxOffset
Coords == 0..MaxCoord
Points == Coords \X Coords

(***************************************************************************)
(* 1e-10, the tolerance of LineXY.slope and LineXY.intersect_with, is      *)
(* 1 / (TolDen * TolDen).  Comparisons with it are made on integers:       *)
(*   p / q < 1e-10  <=>  p * 10^10 < q  <=>  p <= floor((q - 1) / 10^10)   *)
(* and the floor is taken in two steps to stay within TLC's integers.      *)
(***************************************************************************)
TolDen == 100000

\* p / q < 1e-10, for integers p >= 0 and q > 0
RatioBelowTol(p, q) == p <= ((q - 1) \div TolDen) \div TolDen

\* abs(n / sqrt(m2)) < 1e-10; a comparison with nan or inf (m2 = 0) is False
AbsBelowTol(n, m2) ==
    /\ m2 # 0
    /\ n * n <= ((((m2 - 1) \div TolDen) \div TolDen) \div TolDen) \div TolDen

(***************************************************************************)
(* LineXY                                                                  *)
(***************************************************************************)
NoLine == [kind |-> "None"]
\* A LineXY object: coefficients (A, B, C) / sqrt(m2).
Line(a, b, c, m2) == [kind |-> "LineXY", A |-> a, B |-> b, C |-> c, m2 |-> m2]

\* LineXY.__init__(A, B, C) with arguments (a, b, c) / sqrt(s2):
\* mag = norm([A, B]); self.A = A / mag; self.B = B / mag; self.C = C / mag
LineXY(a, b, c, s2) ==
    IF s2 = 0
        THEN Line(0, 0, 0, 0)               \* nan or inf arguments: mag is nan
        ELSE Line(a, b, c, a * a + b * b)   \* m2 = 0 when A = B = 0

\* the coefficient n / sqrt(m2) is a finite number
IsFinite(L) == L.m2 # 0

\* A*A + B*B = 1
IsNormalized(L) == L.m2 # 0 /\ L.A * L.A + L.B * L.B = L.m2

\* LineXY.flip_in_place: A *= -1; B *= -1; C *= -1
FlipInPlace(L) == Line(0 - L.A, 0 - L.B, 0 - L.C, L.m2)

\* LineXY.flip: L_out = LineXY(*self.ABC); L_out.flip_in_place(); return L_out
Flip(L) == FlipInPlace(LineXY(L.A, L.B, L.C, L.m2))

\* LineXY.slope: inf when abs(B) < 1e-10, else -A / B
Slope(L) ==
    IF AbsBelowTol(L.B, L.m2) THEN [kind |-> "inf", n |-> 1, d |-> 0]
    ELSE IF L.m2 = 0 THEN [kind |-> "nan", n |-> 0, d |-> 0]
    ELSE [kind |-> "num", n |-> (0 - L.A) * Sgn(L.B), d |-> Abs(L.B)]

\* abs(s1 - s2) < 1e-10
SlopeDiffBelowTol(s1, s2) ==
    /\ s1.kind = "num"
    /\ s2.kind = "num"
    /\ RatioBelowTol(Abs(s1.n * s2.d - s2.n * s1.d), s1.d * s2.d)

\* mutant: the test without its comparison of the slopes
DetectedParallel_NoSlope(L1, L2) ==
    \/ AbsBelowTol(L1.A, L1.m2) /\ AbsBelowTol(L2.A, L2.m2)
    \/ AbsBelowTol(L1.B, L1.m2) /\ AbsBelowTol(L2.B, L2.m2)

\* the test of LineXY.intersect_with for parallel lines
DetectedParallel(L1, L2) ==
    \/ AbsBelowTol(L1.A, L1.m2) /\ AbsBelowTol(L2.A, L2.m2)
    \/ AbsBelowTol(L1.B, L1.m2) /\ AbsBelowTol(L2.B, L2.m2)
    \/ SlopeDiffBelowTol(Slope(L1), Slope(L2))

\* LineXY.intersect_with: None, or Vxy(v[:2] / v[2]) with v = cross(ABC1, ABC2).
\* The point is (x / d, y / d); the common factor 1 / sqrt(m2 * m2') cancels.
\* A nan or inf coefficient makes every component nan (d = 0, x = y = 0).
IntersectWith(L1, L2) ==
    IF DetectedParallel(L1, L2) THEN [kind |-> "None"]
    ELSE IF L1.m2 = 0 \/ L2.m2 = 0
        THEN [kind |-> "Vxy", len |-> 1, x |-> 0, y |-> 0, d |-> 0]
    ELSE [kind |-> "Vxy", len |-> 1,
          x |-> L1.B * L2.C - L1.C * L2.B,
          y |-> L1.C * L2.A - L1.A * L2.C,
          d |-> L1.A * L2.B - L1.B * L2.A]

\* LineXY.from_two_points on two Vxy containers (sequences of points)
FromTwoPoints(Pxy1, Pxy2) ==
    IF Len(Pxy1) # 1 \/ Len(Pxy2) # 1
        THEN [raised |-> "ValueError", ret |-> NoLine]
    ELSE LET dx == Pxy2[1][1] - Pxy1[1][1]
             dy == Pxy2[1][2] - Pxy1[1][2]
             a  == dy                               \* AB = R @ delta, R = [[0, 1], [-1, 0]]
             b  == 0 - dx
             c  == 0 - (Pxy1[1][1] * a + Pxy1[1][2] * b)
         IN [raised |-> "", ret |-> LineXY(a, b, c, 1)]

\* the Vxy containers handed to from_two_points
PointArgs == {<<p>> : p \in Points} \cup {<<p, p>> : p \in {<<0, 0>>, <<1, 1>>}}

\* L = LineXY(A, B, C)
Line__init__ ==
    \E a \in Coefs, b \in Coefs, c \in Offsets :
        /\ lineA = NoLine
        /\ lineA' = LineXY(a, b, c, 1)
        /\ lout' = [op |-> "__init__", raised |-> "", ret |-> LineXY(a, b, c, 1),
                    coincident |-> FALSE, self |-> NoLine, other |-> NoLine]
        /\ UNCHANGED <<vxyVars, fitVars, poseVars, camVars, cal, ss>>

\* L = LineXY.from_two_points(Pxy1, Pxy2)
Line_from_two_points ==
    \E P1 \in PointArgs, P2 \in PointArgs :
        LET r == FromTwoPoints(P1, P2) IN
        /\ lineA = NoLine
        /\ lineA' = IF r.raised # "" THEN lineA ELSE r.ret
        /\ lout' = [op |-> "from_two_points", raised |-> r.raised, ret |-> r.ret,
                    coincident |-> Len(P1) = 1 /\ Len(P2) = 1 /\ P1[1] = P2[1],
                    self |-> NoLine, other |-> NoLine]
        /\ UNCHANGED <<vxyVars, fitVars, poseVars, camVars, cal, ss>>

\* L.flip(); the caller keeps L, or goes on with the returned copy (L = L.flip())
Line_flip ==
    \E rebind \in BOOLEAN :
        /\ lineA # NoLine
        /\ lineA' = IF rebind THEN Flip(lineA) ELSE lineA
        /\ lout' = [op |-> "flip", raised |-> "", ret |-> Flip(lineA),
                    coincident |-> FALSE, self |-> lineA, other |-> NoLine]
        /\ UNCHANGED <<vxyVars, fitVars, poseVars, camVars, cal, ss>>

\* L.flip_in_place()
Line_flip_in_place ==
    /\ lineA # NoLine
    /\ lineA' = FlipInPlace(lineA)
    /\ lout' = [op |-> "flip_in_place", raised |-> "", ret |-> NoLine,
                coincident |-> FALSE, self |-> lineA, other |-> NoLine]
    /\ UNCHANGED <<vxyVars, fitVars, poseVars, camVars, cal, ss>>

\* L.intersect_with(Lxy), for a line Lxy = LineXY(A, B, C)
Line_intersect_with ==
    \E a \in Coefs, b \in Coefs, c \in Offsets :
        LET Lxy == LineXY(a, b, c, 1) IN
        /\ lineA # NoLine
        /\ lout' = [op |-> "intersect_with", raised |-> "", ret |-> IntersectWith(lineA, Lxy),
                    coincident |-> FALSE, self |-> lineA, other |-> Lxy]
        /\ UNCHANGED <<lineA, vxyVars, fitVars, poseVars, camVars, cal, ss>>

(***************************************************************************)
(* Vxy.  The _data of a container is a sequence of vectors; a vector       *)
(* <<x, y, m2>> stands for (x, y) / sqrt(m2).                              *)
(***************************************************************************)
Vec(x, y, m2) == <<x, y, m2>>

\* Vxy.magnitude() == 0, per vector: sqrt(x**2 + y**2) == 0
MagIsZero(v) == v[1] * v[1] + v[2] * v[2] = 0

\* mutant: np.all instead of np.any
MagnitudeWithZeroCheck_All(data) ==
    IF \A i \in 1..Len(data) : MagIsZero(data[i]) THEN "ValueError" ELSE ""

\* Vxy._magnitude_with_zero_check: raises when np.any(mag == 0)
MagnitudeWithZeroCheck(data) ==
    IF \E i \in 1..Len(data) : MagIsZero(data[i]) THEN "ValueError" ELSE ""

\* one column of self._data / mag; mag = sqrt(x*x + y*y) / sqrt(m2)
DivByMag(v) == Vec(v[1], v[2], v[1] * v[1] + v[2] * v[2])

\* Vxy.normalize_in_place: self._data /= self._magnitude_with_zero_check()
NormalizeInPlace(data) ==
    IF MagnitudeWithZeroCheck(data) # ""
        THEN [raised |-> MagnitudeWithZeroCheck(data), data |-> data]
        ELSE [raised |-> "", data |-> [i \in 1..Len(data) |-> DivByMag(data[i])]]

\* a rotation operand R: its Python type, its shape and, for a 2x2 array, its rows
RotOperand(type, shape, rows) == [type |-> type, shape |-> shape, rows |-> rows]
Rot90 == <<<<0, -1>>, <<1, 0>>>>
Ident == <<<<1, 0>>, <<0, 1>>>>

\* R @ v
MatVec(rows, v) ==
    Vec(rows[1][1] * v[1] + rows[1][2] * v[2], rows[2][1] * v[1] + rows[2][2] * v[2], v[3])

\* Vxy.rotate_in_place: the two checks of R, then self._data = R @ self._data
RotateInPlace(data, R) ==
    IF R.type # "ndarray" THEN [raised |-> "TypeError", data |-> data]
    ELSE IF R.shape # <<2, 2>> THEN [raised |-> "ValueError", data |-> data]
    ELSE [raised |-> "", data |-> [i \in 1..Len(data) |-> MatVec(R.rows, data[i])]]

\* self._data -= V_pivot.data and self._data += V_pivot.data (sign = -1, 1), on
\* integer coordinates; a pivot of one column is broadcast
Shift(data, pivot, sign) ==
    [i \in 1..Len(data) |->
        LET p == IF Len(pivot) = 1 THEN pivot[1] ELSE pivot[i]
        IN Vec(data[i][1] + sign * p[1], data[i][2] + sign * p[2], data[i][3])]

\* Vxy.rotate_about_in_place: centre the pivot, rotate_in_place(R), recentre.
\* A pivot that does not broadcast to the data makes the first -= raise.
RotateAboutInPlace(data, R, pivot) ==
    IF Len(pivot) # 1 /\ Len(pivot) # Len(data)
        THEN [raised |-> "ValueError", data |-> data]
    ELSE LET centred == Shift(data, pivot, -1)
             rot == RotateInPlace(centred, R)
         IN IF rot.raised # ""
                THEN [raised |-> rot.raised, data |-> rot.data]
                ELSE [raised |-> "", data |-> Shift(rot.data, pivot, 1)]

IntVecs == {Vec(p[1], p[2], 1) : p \in Points}
VxyArgs == UNION {[1..n -> IntVecs] : n \in 1..MaxVecs}
RotArgs == {RotOperand("ndarray", <<2, 2>>, Rot90), RotOperand("ndarray", <<2, 2>>, Ident),
            RotOperand("list", <<2, 2>>, Rot90), RotOperand("ndarray", <<3, 3>>, <<>>),
            RotOperand("ndarray", <<2>>, <<>>)}
PivotArgs == {<<Vec(p[1], p[2], 1)>> : p \in Points}
                 \cup {<<Vec(1, 0, 1), Vec(0, 1, 1)>>}
IsIntegral(data) == \A i \in 1..Len(data) : data[i][3] = 1
NoData == <<>>
NoVOut == [op |-> "none", raised |-> "", ret |-> NoData, before |-> NoData]

\* V = Vxy(data)
Vxy__init__ ==
    \E data \in VxyArgs :
        /\ vxy = NoData
        /\ vxy' = data
        /\ vout' = [op |-> "__init__", raised |-> "", ret |-> NoData, before |-> NoData]
        /\ vcalls' = 0
        /\ UNCHANGED <<lineVars, fitVars, poseVars, camVars, cal, ss>>

\* V.normalize(): V_out = copy of V; V_out.normalize_in_place(); return V_out
Vxy_normalize ==
    LET r == NormalizeInPlace(vxy) IN
    /\ vxy # NoData
    /\ vcalls < MaxCalls
    /\ vout' = [op |-> "normalize", raised |-> r.raised,
                ret |-> IF r.raised = "" THEN r.data ELSE NoData, before |-> vxy]
    /\ vcalls' = vcalls + 1
    /\ UNCHANGED <<vxy, lineVars, fitVars, poseVars, camVars, cal, ss>>

\* V.normalize_in_place()
Vxy_normalize_in_place ==
    LET r == NormalizeInPlace(vxy) IN
    /\ vxy # NoData
    /\ vcalls < MaxCalls
    /\ vxy' = r.data
    /\ vout' = [op |-> "normalize_in_place", raised |-> r.raised, ret |-> NoData,
                before |-> vxy]
    /\ vcalls' = vcalls + 1
    /\ UNCHANGED <<lineVars, fitVars, poseVars, camVars, cal, ss>>

\* V.rotate_in_place(R)
Vxy_rotate_in_place ==
    \E R \in RotArgs :
        LET r == RotateInPlace(vxy, R) IN
        /\ vxy # NoData
        /\ vcalls < MaxCalls
    /\ vcalls < MaxCalls
        /\ vxy' = r.data
        /\ vout' = [op |-> "rotate_in_place", raised |-> r.raised, ret |-> NoData,
                    before |-> vxy]
        /\ vcalls' = vcalls + 1
        /\ UNCHANGED <<lineVars, fitVars, poseVars, camVars, cal, ss>>

\* V.rotate_about_in_place(R, V_pivot), for a pivot of integer coordinates and a
\* container of integer coordinates (the sum of an integer and n / sqrt(m2) is
\* not a value of the model)
Vxy_rotate_about_in_place ==
    \E R \in RotArgs, pivot \in PivotArgs :
        LET r == RotateAboutInPlace(vxy, R, pivot) IN
        /\ vxy # NoData
        /\ vcalls < MaxCalls
    /\ vcalls < MaxCalls
        /\ IsIntegral(vxy)
        /\ vxy' = r.data
        /\ vout' = [op |-> "rotate_about_in_place", raised |-> r.raised, ret |-> NoData,
                    before |-> vxy]
        /\ vcalls' = vcalls + 1
        /\ UNCHANGED <<lineVars, fitVars, poseVars, camVars, cal, ss>>

NoOut == [op |-> "none", raised |-> "", ret |-> NoLine,
          coincident |-> FALSE, self |-> NoLine, other |-> NoLine]

(***************************************************************************)
(* LineXY.fit_from_points.                                                 *)
(*                                                                         *)
(* The generator.  numpy's MT19937 is not code of the repository; what the *)
(* fit relies on is that a RandomState is a deterministic stream fixed by  *)
(* its seed.  The stream is modelled by a full-period congruential         *)
(* generator over 0..4095; rand() is state / 4096, a float in [0, 1).      *)
(***************************************************************************)
MaxTrials == 1000       \* for idx in range(1000)
NoFitMax == 15          \* if n <= 15: raise ValueError
ThreshPct == 99         \* thresh = int(0.99 * n)

Workers == {1, 2}

\* mutant: the stream of the global generator, rs = np.random
NewRandomState_Global(seed, g) == g

\* rs = RandomState(MT19937(SeedSequence(seed))); numpy's global generator (its state
\* is g) is not read
NewRandomState(seed, g) == (seed * 2731 + 977) % 4096

\* mutant: one generator for the whole process, the first caller's
RandomStateOf_Shared(w) == 1

\* the generator a call draws from: rs is a local of the call (line 95), so every
\* execution has its own
RandomStateOf(w) == w

\* the period of the stream: after RandPeriod draws a generator repeats itself
RandPeriod == 4096

\* the state of a generator after one rand()
Rand(rs) == (1229 * rs + 1013) % 4096

\* np.floor(rs.rand() * n).astype(int), rs being the state after the rand()
RandIndex(rs, n) == (rs * n) \div 4096

\* thresh = int(0.99 * n)
Thresh(n) == (ThreshPct * n) \div 100

\* one entry of Lxy.dist_from(Pxy) < neighbor_dist:
\* abs(A x + B y + C) < nd, with (A, B, C) = (a, b, c) / sqrt(m2); False for nan
DistBelow(L, p, nd) ==
    /\ L.m2 # 0
    /\ nd > 0
    /\ (L.A * p[1] + L.B * p[2] + L.C) * (L.A * p[1] + L.B * p[2] + L.C) < nd * nd * L.m2

\* mask_neighbor = Lxy.dist_from(Pxy) < neighbor_dist
MaskNeighbor(L, Pxy, nd) == [k \in 1..Len(Pxy) |-> DistBelow(L, Pxy[k], nd)]

\* mask_neighbor.sum()
MaskSum(mask) == Cardinality({k \in 1..Len(mask) : mask[k]})

\* the condition of the while loop: both coordinates of points i1 and i2 are equal
SamePoint(Pxy, i1, i2) ==
    Pxy[i1 + 1][1] = Pxy[i2 + 1][1] /\ Pxy[i1 + 1][2] = Pxy[i2 + 1][2]

\* if n_active > best_active: keep the candidate
KeepCandidate(n_active, best_active) == n_active > best_active

\* mutant: stop at thresh itself
StopSearch_Ge(n_active, thresh) == n_active >= thresh

\* if n_active > thresh: break
StopSearch(n_active, thresh) == n_active > thresh

\* Pxy[active_mask]
Select(Pxy, mask) == SelectSeq([k \in 1..Len(Pxy) |-> <<Pxy[k], mask[k]>>],
                               LAMBDA e : e[2])

\* The line returned: scipy's minimize started at (arctan2(A, B), C) on the active
\* points, a pure function of its arguments that is kept as this term.
Minimize(start, pts) == [kind |-> "LineXY", fitted |-> TRUE, start |-> start, pts |-> pts]

IdleFrame ==
    [pc |-> "idle", Pxy |-> <<>>, seed |-> 0, nd |-> 0, rs |-> 0, n |-> 0, thresh |-> 0,
     idx |-> 0, i1 |-> 0, i2 |-> 0, n_active |-> 0, best_active |-> 0,
     bound |-> FALSE,           \* active_mask, A_active, B_active, C_active are assigned
     active_mask |-> <<>>, ABC_active |-> NoLine,
     ret |-> NoLine, raised |-> "",
     \* history of the call
     draws |-> 0,               \* rand() calls made
     digest |-> 0,              \* a digest of the sequence of indices drawn
     redraws |-> 0,             \* passes of the while loop in the current trial; the
                                \* history stops recording a loop that has gone
                                \* through a whole period of the stream
     trials |-> 0,              \* trials evaluated
     max_active |-> 0,          \* the largest n_active of the trials evaluated
     exceed_at |-> -1,          \* the first trial whose n_active is above 99% of n
     mask_at |-> -1,            \* the trial active_mask was saved in
     abc_at |-> -1]             \* the trial A_active, B_active, C_active were saved in

Digest(d, i) == (d * 31 + i + 1) % 65536

\* n_active is more than 99% of n
Above99(n_active, n) == n_active * 100 > 99 * n

\* the point sets fit_from_points is called with
PointKinds == {"line", "pairs", "near", "far", "same"}
PointsOf(kind, n) ==
    [k \in 1..n |->
        CASE kind = "line" -> <<k - 1, 0>>                  \* collinear, distinct
          [] kind = "pairs" -> <<(k - 1) \div 2, 0>>         \* collinear, each point twice
          [] kind = "near" -> IF k = n THEN <<0, 1>> ELSE <<k - 1, 0>>
          [] kind = "far" -> IF k = n THEN <<0, 3>> ELSE <<k - 1, 0>>
          [] OTHER -> <<0, 0>>]                             \* n times the same point
FitSizes == (NoFitMax - 1)..(NoFitMax + MaxExtraPts)
Seeds == 0..MaxSeed
NeighborDists == 0..MaxNeighborDist

\* LineXY.fit_from_points(Pxy, seed, neighbor_dist), lines 94-101, called with a
\* point set of one of the given kinds and sizes
Fit_call(w, kinds, sizes) ==
    \E kind \in kinds, n \in sizes, seed \in Seeds, nd \in NeighborDists :
        /\ fit[w].pc = "idle"
        /\ fit' = [[fit EXCEPT ![w] =
                [IdleFrame EXCEPT
                    !.Pxy = PointsOf(kind, n), !.seed = seed, !.nd = nd,
                    !.n = n, !.thresh = Thresh(n),
                    !.pc = IF n <= NoFitMax THEN "raised" ELSE "trial",
                    !.raised = IF n <= NoFitMax THEN "ValueError" ELSE ""]]
                EXCEPT ![RandomStateOf(w)].rs = NewRandomState(seed, np_global.state)]
        /\ UNCHANGED <<np_global, memo, lineVars, vxyVars, poseVars, camVars, cal, ss>>

\* lines 105-109: the head of a trial draws i1 and i2
Fit_sample(w) ==
    LET f == fit[w]
        rs1 == Rand(fit[RandomStateOf(w)].rs)
        rs2 == Rand(rs1)
        i1 == RandIndex(rs1, f.n)
        i2 == RandIndex(rs2, f.n)
    IN /\ f.pc = "trial"
       /\ fit' = [[fit EXCEPT ![w] =
                [f EXCEPT !.i1 = i1, !.i2 = i2,
                          !.redraws = 0,
                          !.draws = f.draws + 2,
                          !.digest = Digest(Digest(f.digest, i1), i2),
                          !.pc = IF SamePoint(f.Pxy, i1, i2) THEN "redraw" ELSE "fit"]]
                EXCEPT ![RandomStateOf(w)].rs = rs2]
       /\ UNCHANGED <<np_global, memo, lineVars, vxyVars, poseVars, camVars, cal, ss>>

\* lines 109-110: one pass of the while loop draws i2 again
Fit_redraw(w) ==
    LET f == fit[w]
        rs1 == Rand(fit[RandomStateOf(w)].rs)
        i2 == RandIndex(rs1, f.n)
        recorded == f.redraws < RandPeriod
    IN /\ f.pc = "redraw"
       /\ fit' = [[fit EXCEPT ![w] =
                [f EXCEPT !.i2 = i2,
                          !.redraws = IF recorded THEN f.redraws + 1 ELSE f.redraws,
                          !.draws = IF recorded THEN f.draws + 1 ELSE f.draws,
                          !.digest = IF recorded THEN Digest(f.digest, i2) ELSE f.digest,
                          !.pc = IF SamePoint(f.Pxy, f.i1, i2) THEN "redraw" ELSE "fit"]]
                EXCEPT ![RandomStateOf(w)].rs = rs1]
       /\ UNCHANGED <<np_global, memo, lineVars, vxyVars, poseVars, camVars, cal, ss>>

\* lines 112-135: fit the candidate, count its neighbours, keep the best, break or
\* go to the next trial
Fit_trial(w) ==
    LET f == fit[w]
        Lxy == FromTwoPoints(<<f.Pxy[f.i1 + 1]>>, <<f.Pxy[f.i2 + 1]>>).ret
        mask_neighbor == MaskNeighbor(Lxy, f.Pxy, f.nd)
        n_active == MaskSum(mask_neighbor)
        keep == KeepCandidate(n_active, f.best_active)
        stop == StopSearch(n_active, f.thresh)
    IN /\ f.pc = "fit"
       /\ fit' = [fit EXCEPT ![w] =
                [f EXCEPT
                    !.n_active = n_active,
                    !.best_active = IF keep THEN n_active ELSE f.best_active,
                    !.bound = f.bound \/ keep,
                    !.active_mask = IF keep THEN mask_neighbor ELSE f.active_mask,
                    !.ABC_active = IF keep THEN Lxy ELSE f.ABC_active,
                    !.idx = IF stop \/ f.idx + 1 = MaxTrials THEN f.idx ELSE f.idx + 1,
                    !.pc = IF stop \/ f.idx + 1 = MaxTrials THEN "refine" ELSE "trial",
                    !.trials = f.trials + 1,
                    !.max_active = IF n_active > f.max_active THEN n_active
                                   ELSE f.max_active,
                    !.exceed_at = IF f.exceed_at = -1 /\ Above99(n_active, f.n)
                                  THEN f.idx ELSE f.exceed_at,
                    !.mask_at = IF keep THEN f.idx ELSE f.mask_at,
                    !.abc_at = IF keep THEN f.idx ELSE f.abc_at]]
       /\ UNCHANGED <<np_global, memo, lineVars, vxyVars, poseVars, camVars, cal, ss>>

\* lines 151-160: the least squares fit to the active points.  Reading active_mask
\* when no trial assigned it raises UnboundLocalError.
Fit_refine(w) ==
    LET f == fit[w] IN
    /\ f.pc = "refine"
    /\ fit' = [fit EXCEPT ![w] =
            IF f.bound
                THEN [f EXCEPT !.pc = "returned",
                               !.ret = Minimize(f.ABC_active, Select(f.Pxy, f.active_mask))]
                ELSE [f EXCEPT !.pc = "raised", !.raised = "UnboundLocalError"]]
    /\ UNCHANGED <<np_global, memo, lineVars, vxyVars, poseVars, camVars, cal, ss>>

\* the call is over: the caller has the line or the exception
Fit_return(w) ==
    /\ fit[w].pc \in {"returned", "raised"}
    /\ fit' = [fit EXCEPT ![w] = IdleFrame]
    /\ UNCHANGED <<np_global, memo, lineVars, vxyVars, poseVars, camVars, cal, ss>>

\* what a completed call drew, retained and returned
Outcome(f) ==
    [Pxy |-> f.Pxy, seed |-> f.seed, nd |-> f.nd,
     draws |-> f.draws, digest |-> f.digest,
     bound |-> f.bound, active_mask |-> f.active_mask, ABC_active |-> f.ABC_active,
     mask_at |-> f.mask_at, ret |-> f.ret, raised |-> f.raised]

\* history: the first completed call is remembered
Fit_remember(w) ==
    /\ fit[w].pc \in {"returned", "raised"}
    /\ ~memo.set
    /\ memo' = [set |-> TRUE, out |-> Outcome(fit[w])]
    /\ UNCHANGED <<fit, np_global, lineVars, vxyVars, poseVars, camVars, cal, ss>>

\* a worker is given the points, the seed and the distance of the remembered call
Fit_call_again(w) ==
    /\ memo.set
    /\ Fit_call(w, PointKinds, FitSizes)
    /\ fit'[w].Pxy = memo.out.Pxy
    /\ fit'[w].seed = memo.out.seed
    /\ fit'[w].nd = memo.out.nd

\* other code of the process draws from numpy's global generator (np.random.rand())
Env_np_random ==
    /\ np_global.draws < MaxGlobalDraws
    /\ np_global' = [state |-> Rand(np_global.state), draws |-> np_global.draws + 1]
    /\ UNCHANGED <<fit, memo, lineVars, vxyVars, poseVars, camVars, cal, ss>>

(***************************************************************************)
(* The pose solver of the spatial processing (section 4.4 of the           *)
(* specification).  Rotations, translations and residual errors are        *)
(* abstract values; what a numeric step computes is any of them.           *)
(***************************************************************************)
PoseVals == 0..MaxPoseVal
Errs == 0..MaxErr

\* both residual errors are below the tolerance
PoseConverged(reproj_err, dist_err) == reproj_err < PoseTol /\ dist_err < PoseTol

\* mutant: the loop is left from ReprojectionRefine as soon as the errors are small
PoseNextState_EarlyExit(state, iter, reproj_err, dist_err) ==
    CASE state = "Initial" -> "DistanceEstimate"
      [] state = "DistanceEstimate" -> "ReprojectionRefine"
      [] state = "ReprojectionRefine" ->
            IF PoseConverged(reproj_err, dist_err) THEN "Converged" ELSE "DistanceRefine"
      [] state = "DistanceRefine" ->
            IF PoseConverged(reproj_err, dist_err) \/ iter >= PoseIterCap
                THEN "Converged" ELSE "ReprojectionRefine"
      [] OTHER -> "Converged"

\* mutant: the loop makes one iteration more than the cap
PoseNextState_OneMore(state, iter, reproj_err, dist_err) ==
    CASE state = "Initial" -> "DistanceEstimate"
      [] state = "DistanceEstimate" -> "ReprojectionRefine"
      [] state = "ReprojectionRefine" -> "DistanceRefine"
      [] state = "DistanceRefine" ->
            IF PoseConverged(reproj_err, dist_err) \/ iter > PoseIterCap
                THEN "Converged" ELSE "ReprojectionRefine"
      [] OTHER -> "Converged"

\* the state that follows `state`, given the iteration and the errors of the pose
\* the step of `state` produced
PoseNextState(state, iter, reproj_err, dist_err) ==
    CASE state = "Initial" -> "DistanceEstimate"
      [] state = "DistanceEstimate" -> "ReprojectionRefine"
      [] state = "ReprojectionRefine" -> "DistanceRefine"
      [] state = "DistanceRefine" ->
            IF PoseConverged(reproj_err, dist_err) \/ iter >= PoseIterCap
                THEN "Converged" ELSE "ReprojectionRefine"
      [] OTHER -> "Converged"

InitialPose ==
    [state |-> "Initial", iter |-> 0, rot |-> 0, trans |-> 0,
     reproj_err |-> MaxErr, dist_err |-> MaxErr]

\* the move to the next state, recorded in the history
PoseStep(next) ==
    /\ pose' = next
    /\ ptrace' = Append(ptrace, <<next.state, next.iter>>)
    /\ UNCHANGED <<lineVars, vxyVars, fitVars, camVars, cal, ss>>

\* Initial -> DistanceEstimate: t_from_distance gives the camera-to-optic vector
Pose_t_from_distance ==
    \E t \in PoseVals :
        /\ pose.state = "Initial"
        /\ PoseStep([pose EXCEPT
                !.state = PoseNextState(pose.state, pose.iter, pose.reproj_err, pose.dist_err),
                !.trans = t])

\* DistanceEstimate -> ReprojectionRefine: r_from_position gives the rotation of the
\* initial pose
Pose_r_from_position ==
    \E r \in PoseVals, re \in Errs, de \in Errs :
        /\ pose.state = "DistanceEstimate"
        /\ PoseStep([pose EXCEPT
                !.state = PoseNextState(pose.state, pose.iter, re, de),
                !.iter = 1, !.rot = r, !.reproj_err = re, !.dist_err = de])

\* ReprojectionRefine: calc_rt_from_img_pts solves for the rotation and translation
\* of least reprojection error
Pose_calc_rt_from_img_pts ==
    \E r \in PoseVals, t \in PoseVals, re \in Errs, de \in Errs :
        /\ pose.state = "ReprojectionRefine"
        /\ re <= pose.reproj_err
        /\ PoseStep([pose EXCEPT
                !.state = PoseNextState(pose.state, pose.iter, re, de),
                !.rot = r, !.trans = t, !.reproj_err = re, !.dist_err = de])

\* mutant: the refinement also replaces the rotation
RefineVDistance_Rotates(p, v_cam_optic) == [p EXCEPT !.trans = v_cam_optic, !.rot = v_cam_optic]

\* refine_v_distance takes the translation and the measured distance and returns a
\* translation (the call of test_refine_v_distance); the pose keeps its rotation
RefineVDistance(p, v_cam_optic) == [p EXCEPT !.trans = v_cam_optic]

\* DistanceRefine: refine_v_distance adjusts the translation, the rotation held
\* fixed; then the loop goes on with the next iteration, or ends
Pose_refine_v_distance ==
    \E t \in PoseVals, re \in Errs, de \in Errs :
        LET next == PoseNextState(pose.state, pose.iter, re, de) IN
        /\ pose.state = "DistanceRefine"
        /\ de <= pose.dist_err
        /\ PoseStep([RefineVDistance(pose, t) EXCEPT
                !.state = next,
                !.iter = IF next = "Converged" THEN pose.iter ELSE pose.iter + 1,
                !.reproj_err = re, !.dist_err = de])

(***************************************************************************)
(* The camera registry of ImageAcquisitionAbstract and the DCAM mono       *)
(* camera ImageAcquisition.  A camera object is its identity 1, 2, ... in  *)
(* `cameras`; the dict _instances is the sequence of its (key, value)      *)
(* pairs in insertion order, the order a dict is iterated in.              *)
(***************************************************************************)
NoCamera == 0       \* None, where a camera is expected
NoIdx == -1         \* None, where an index is expected

\* idx in d
DictHas(d, idx) == \E k \in 1..Len(d) : d[k][1] = idx

\* d[idx]
DictGet(d, idx) == d[CHOOSE k \in 1..Len(d) : d[k][1] = idx][2]

\* d[idx] = camera
DictSet(d, idx, camera) ==
    IF DictHas(d, idx)
        THEN [k \in 1..Len(d) |-> IF d[k][1] = idx THEN <<idx, camera>> ELSE d[k]]
        ELSE Append(d, <<idx, camera>>)

\* mutant: the index is not advanced
NextInstanceIdx_Stuck(idx) == idx

\* ImageAcquisitionAbstract._next_instance_idx += 1
NextInstanceIdx(idx) == idx + 1

\* mutant: the first camera of the dict, open or closed
InstanceFirst_AnyState(d, cams) == IF d = <<>> THEN NoCamera ELSE d[1][2]

\* instance(None), lines 60-65: the first camera of the dict that is not closed
InstanceFirst(d, cams) ==
    LET open == {k \in 1..Len(d) : ~cams[d[k][2]].is_closed} IN
    IF open = {} THEN NoCamera
    ELSE d[CHOOSE k \in open : \A j \in open : k <= j][2]

\* ImageAcquisitionAbstract.instance(idx)
Instance(d, cams, idx) ==
    IF idx = NoIdx THEN InstanceFirst(d, cams)
    ELSE IF DictHas(d, idx)
        THEN IF cams[DictGet(d, idx)].is_closed THEN NoCamera ELSE DictGet(d, idx)
        ELSE NoCamera

\* isinstance(camera, subclass) for a camera of class cls
IsInstance(cls, subclass) ==
    \/ subclass = "ImageAcquisitionAbstract"
    \/ subclass = cls

\* mutant: the cameras of the dict, the closed ones too
Instances_WithClosed(d, cams, subclass) ==
    SelectSeq([k \in 1..Len(d) |-> d[k][2]],
              LAMBDA c : subclass = "None" \/ IsInstance(cams[c].cls, subclass))

\* ImageAcquisitionAbstract.instances(subclass)
Instances(d, cams, subclass) ==
    SelectSeq([k \in 1..Len(d) |-> Instance(d, cams, d[k][1])],
              LAMBDA c : /\ c # NoCamera
                         /\ subclass = "None" \/ IsInstance(cams[c].cls, subclass))

\* mutant: the objects are compared, not their basler_index; a new object equals none
InstanceMatches_Identity(basler_index, possible_matches, cams) == FALSE

\* ImageAcquisition.instance_matches(possible_matches), self.basler_index given
InstanceMatches(basler_index, possible_matches, cams) ==
    \E k \in 1..Len(possible_matches) :
        cams[possible_matches[k]].basler_index = basler_index

\* mutant: close() without the test of is_closed
AlreadyClosed_Never(camera) == FALSE

\* if self.is_closed: return
AlreadyClosed(camera) == camera.is_closed

\* the object after ImageAcquisition.__init__, with the history of its callbacks
NewCamera(instance) ==
    [cls |-> "DCAM_mono", basler_index |-> instance, is_closed |-> FALSE,
     on_close |-> <<>>,
     cap_open |-> TRUE,     \* self.cap is open
     close_pc |-> 0,        \* in close(): the entry of on_close the loop is at
     invoked |-> <<>>,      \* history: the callbacks invoked, in order
     at_close |-> <<>>]     \* history: on_close when close() went past its test

\* the classes instances() is asked for; "MSMF" is a class of no camera here
Subclasses == {"None", "ImageAcquisitionAbstract", "DCAM_mono", "MSMF"}

\* what a callback does: nothing else, raise an Exception, or call camera.close()
Callbacks == {"counts", "raises", "closes"}

NoCOut == [op |-> "none", arg |-> NoIdx, subclass |-> "None", raised |-> "",
           ret |-> NoCamera, list |-> <<>>,
           \* history of a construction: an open registered camera had the
           \* basler_index asked for; the device opened
           matched |-> FALSE, connects |-> FALSE]

\* no close() is in its loop over on_close
NoCloseRunning == \A c \in 1..Len(cameras) : cameras[c].close_pc = 0

\* history: an open registered camera has this basler_index
OpenWithIndex(instance) ==
    \E k \in 1..Len(registry.instances) :
        LET camera == cameras[registry.instances[k][2]] IN
        ~camera.is_closed /\ camera.basler_index = instance

\* ImageAcquisition(instance): DCAM_mono lines 34-78 with the super().__init__() of
\* ImageAcquisitionAbstract lines 35-44.  The device may fail to open, and the
\* set-up after super().__init__() may fail, leaving the camera registered.
Cam__init__ ==
    \E instance \in 0..MaxDevices, connects \in BOOLEAN, setup \in BOOLEAN :
        LET matches == InstanceMatches(instance,
                            Instances(registry.instances, cameras, "None"), cameras)
            registers == instance < MaxDevices /\ connects /\ ~matches
            idx == registry.next_instance_idx
            self == Len(cameras) + 1
        IN /\ NoCloseRunning
           /\ registers => Len(cameras) < MaxCams
           /\ cameras' = IF registers THEN Append(cameras, NewCamera(instance))
                         ELSE cameras
           /\ registry' = IF registers
                          THEN [instances |-> DictSet(registry.instances, idx, self),
                                next_instance_idx |-> NextInstanceIdx(idx)]
                          ELSE registry
           /\ chist' = IF registers /\ idx + 1 > Len(chist) THEN Append(chist, self)
                       ELSE chist
           /\ cout' = [NoCOut EXCEPT
                        !.op = "__init__", !.arg = instance,
                        !.raised = CASE instance >= MaxDevices -> "ValueError"
                                     [] ~connects -> "RuntimeError"
                                     [] matches -> "RuntimeError"
                                     [] ~setup -> "RuntimeException"
                                     [] OTHER -> "",
                        !.ret = IF registers THEN self ELSE NoCamera,
                        !.matched = OpenWithIndex(instance),
                        !.connects = connects]
           /\ UNCHANGED <<lineVars, vxyVars, fitVars, poseVars, cal, ss>>

\* ImageAcquisitionAbstract.instance(idx)
Cam_instance ==
    \E idx \in {NoIdx} \cup 0..MaxCams :
        /\ cout' = [NoCOut EXCEPT !.op = "instance", !.arg = idx,
                        !.ret = Instance(registry.instances, cameras, idx)]
        /\ UNCHANGED <<registry, cameras, chist, lineVars, vxyVars, fitVars, poseVars, cal, ss>>

\* ImageAcquisitionAbstract.instances(subclass)
Cam_instances ==
    \E subclass \in Subclasses :
        /\ cout' = [NoCOut EXCEPT !.op = "instances", !.subclass = subclass,
                        !.list = Instances(registry.instances, cameras, subclass)]
        /\ UNCHANGED <<registry, cameras, chist, lineVars, vxyVars, fitVars, poseVars, cal, ss>>

\* camera.on_close.append(callback)
Cam_on_close_append ==
    \E c \in 1..Len(cameras), callback \in Callbacks :
        /\ NoCloseRunning
        /\ Len(cameras[c].on_close) < MaxOnClose
        /\ cameras' = [cameras EXCEPT ![c].on_close = Append(@, callback)]
        /\ cout' = [NoCOut EXCEPT !.op = "append", !.arg = c]
        /\ UNCHANGED <<registry, chist, lineVars, vxyVars, fitVars, poseVars, cal, ss>>

\* camera.close(), DCAM_mono lines 163-165 and ImageAcquisitionAbstract lines
\* 258-260: on a closed camera the method returns and cap.Close() finds the device
\* closed; on an open one is_closed is set and the loop over on_close starts
Cam_close ==
    \E c \in 1..Len(cameras) :
        /\ NoCloseRunning
        /\ cameras' = IF AlreadyClosed(cameras[c])
                      THEN [cameras EXCEPT ![c].cap_open = FALSE]
                      ELSE [cameras EXCEPT ![c].is_closed = TRUE,
                                           ![c].close_pc = 1,
                                           ![c].at_close = cameras[c].on_close]
        /\ cout' = [NoCOut EXCEPT !.op = "close", !.arg = c]
        /\ UNCHANGED <<registry, chist, lineVars, vxyVars, fitVars, poseVars, cal, ss>>

\* lines 263-265: the loop invokes the next callback; an Exception it raises is
\* ignored.  A callback that calls camera.close() finds is_closed set: the method
\* returns (without that test it would recurse until RecursionError, which is
\* ignored too) and DCAM_mono line 167 closes the device.
Cam_close_callback ==
    \E c \in 1..Len(cameras) :
        LET camera == cameras[c]
            callback == camera.on_close[camera.close_pc]
        IN /\ camera.close_pc \in 1..Len(camera.on_close)
           /\ cameras' = [cameras EXCEPT
                    ![c].invoked = Append(@, callback),
                    ![c].cap_open = IF callback = "closes" /\ AlreadyClosed(camera)
                                    THEN FALSE ELSE @,
                    ![c].close_pc = @ + 1]
           /\ cout' = [NoCOut EXCEPT !.op = "callback", !.arg = c]
           /\ UNCHANGED <<registry, chist, lineVars, vxyVars, fitVars, poseVars, cal, ss>>

\* the loop is over; DCAM_mono lines 166-167: self.cap.Close()
Cam_close_end ==
    \E c \in 1..Len(cameras) :
        LET camera == cameras[c] IN
        /\ camera.close_pc = Len(camera.on_close) + 1
        /\ cameras' = [cameras EXCEPT ![c].cap_open = FALSE, ![c].close_pc = 0]
        /\ cout' = [NoCOut EXCEPT !.op = "closed", !.arg = c]
        /\ UNCHANGED <<registry, chist, lineVars, vxyVars, fitVars, poseVars, cal, ss>>

(***************************************************************************)
(* ImageAcquisitionAbstract.calibrate_exposure.  A frame is the number of  *)
(* its pixels that are above 95% of max_value; the scene fixes that number *)
(* for every exposure value, or the camera is noisy and any frame may come *)
(* at any exposure.                                                        *)
(***************************************************************************)
ImSize == 200           \* im.size, the pixels of a frame

\* the frames of the model: no bright pixel, 1% of the pixels, one pixel more
BrightCounts == {0, ImSize \div 100, ImSize \div 100 + 1}

\* mutant: a frame with 1% of its pixels bright counts as saturated
CheckSaturated_AtOnePercent(bright, size) == 100 * bright >= size

\* _check_saturated(im): (im > max_value * 0.95).sum() > 0.01 * im.size
CheckSaturated(bright, size) == 100 * bright > size

\* np.ceil(np.log2(n)), n >= 1
RECURSIVE CeilLog2(_)
CeilLog2(n) == IF n <= 1 THEN 0 ELSE 1 + CeilLog2((n + 1) \div 2)

\* max_iters = int(np.ceil(np.log2(exposure_values.size)) + 1)
MaxIters(n) == CeilLog2(n) + 1

\* exposure_out after lines 147-149, for n values: zeros, [0] = -1, [-1] = 1
InitialExposureOut(n) ==
    [k \in 1..n |-> IF k = n THEN 1 ELSE IF k = 1 THEN -1 ELSE 0]

\* _get_exposure_idxs(): the last index marked -1 and the first index marked 1,
\* counted from 0; indexing the empty result of np.where raises IndexError
GetExposureIdxs(exposure_out) ==
    LET under == {k \in 1..Len(exposure_out) : exposure_out[k] = -1}
        over == {k \in 1..Len(exposure_out) : exposure_out[k] = 1}
    IN IF under = {} \/ over = {}
        THEN [raised |-> "IndexError", idx_0 |-> 0, idx_1 |-> 0]
        ELSE [raised |-> "",
              idx_0 |-> (CHOOSE k \in under : \A j \in under : j <= k) - 1,
              idx_1 |-> (CHOOSE k \in over : \A j \in over : k <= j) - 1]

\* _check_exposure_set(), given the result of _get_exposure_idxs()
CheckExposureSet(idxs) == idxs.idx_1 - idxs.idx_0 = 1

\* _get_next_exposure_idx(): int(np.mean([idx_0, idx_1]))
GetNextExposureIdx(idxs) == (idxs.idx_0 + idxs.idx_1) \div 2

\* mutant: the exposure is set to the first over-exposed value
FinalExposureIdx_Over(idxs) == idxs.idx_1

\* line 193: exposure_values[_get_exposure_idxs()[0]]
FinalExposureIdx(idxs) == idxs.idx_0

\* shutter_cal_values: DCAM_mono line 78 gives increasing values made integers,
\* so equal neighbours are possible
CalValues ==
    {v \in UNION {[1..n -> 1..MaxExposure] : n \in 1..MaxCalValues} :
        \A k \in 1..(Len(v) - 1) : v[k] <= v[k + 1]}

\* the scenes: the bright pixels of the frame at each exposure value
Scenes == [1..MaxExposure -> BrightCounts]

\* the frames get_frame() can return at an exposure
FramesAt(c, exposure) == IF c.noisy THEN BrightCounts ELSE {c.scene[exposure]}

IdleCal ==
    [pc |-> "idle", values |-> <<>>, scene |-> [e \in 1..MaxExposure |-> 0],
     noisy |-> FALSE, exposure_out |-> <<>>, exposure_time |-> 0,
     i |-> 0, max_iters |-> 0, raised |-> "",
     frames |-> 0,          \* history: frames captured
     steps |-> 0,           \* history: passes of the search loop
     tested |-> <<>>,       \* history: the last frame tested at each index was
                            \* "sat", "unsat", or "none" was
     order |-> <<>>,        \* history: the frames captured, in order, each as
                            \* <<index, bright pixels>>
     probe |-> <<>>]        \* history: <<idx_0, idx_1, idx>> of the last pass of
                            \* the search loop

\* the frame im taken at index idx (from 0) was tested
Tested(c, idx, im, saturated) ==
    [c EXCEPT !.exposure_time = c.values[idx + 1],
              !.frames = c.frames + 1,
              !.order = Append(c.order, <<idx, im>>),
              !.tested[idx + 1] = IF saturated THEN "sat" ELSE "unsat"]

\* calibrate_exposure(), lines 144-149
Cal_call ==
    \E values \in CalValues, scene \in Scenes, noisy \in BOOLEAN :
        /\ cal.pc = "idle"
        /\ noisy => scene = IdleCal.scene
        /\ cal' = [IdleCal EXCEPT
                    !.pc = "min", !.values = values, !.scene = scene, !.noisy = noisy,
                    !.exposure_out = InitialExposureOut(Len(values)),
                    !.tested = [k \in 1..Len(values) |-> "none"]]
        /\ UNCHANGED <<lineVars, vxyVars, fitVars, poseVars, camVars, ss>>

\* lines 152-155: the minimum value must be under-exposed
Cal_check_min ==
    /\ cal.pc = "min"
    /\ \E im \in FramesAt(cal, cal.values[1]) :
        LET saturated == CheckSaturated(im, ImSize) IN
        /\ cal' = [Tested(cal, 0, im, saturated) EXCEPT
                    !.pc = IF saturated THEN "raised" ELSE "max",
                    !.raised = IF saturated THEN "ValueError" ELSE ""]
        /\ UNCHANGED <<lineVars, vxyVars, fitVars, poseVars, camVars, ss>>

\* lines 158-164: the maximum value must be over-exposed
Cal_check_max ==
    /\ cal.pc = "max"
    /\ \E im \in FramesAt(cal, cal.values[Len(cal.values)]) :
        LET saturated == CheckSaturated(im, ImSize) IN
        /\ cal' = [Tested(cal, Len(cal.values) - 1, im, saturated) EXCEPT
                    !.pc = IF saturated THEN "loop" ELSE "raised",
                    !.raised = IF saturated THEN "" ELSE "ValueError",
                    !.max_iters = MaxIters(Len(cal.values)),
                    !.i = 0]
        /\ UNCHANGED <<lineVars, vxyVars, fitVars, poseVars, camVars, ss>>

\* lines 165-186: one pass of the loop
Cal_iter ==
    LET idxs == GetExposureIdxs(cal.exposure_out)
        idx == GetNextExposureIdx(idxs)
    IN /\ cal.pc = "loop"
       /\ IF idxs.raised # ""
            THEN cal' = [cal EXCEPT !.pc = "raised", !.raised = idxs.raised]
            ELSE \E im \in FramesAt(cal, cal.values[idx + 1]) :
                    LET saturated == CheckSaturated(im, ImSize)
                        exposure_out == [cal.exposure_out EXCEPT
                                            ![idx + 1] = IF saturated THEN 1 ELSE -1]
                        after == GetExposureIdxs(exposure_out)
                        c == [Tested(cal, idx, im, saturated) EXCEPT
                                !.exposure_out = exposure_out,
                                !.steps = cal.steps + 1,
                                !.probe = <<idxs.idx_0, idxs.idx_1, idx>>]
                    IN cal' = IF after.raised # ""
                                THEN [c EXCEPT !.pc = "raised", !.raised = after.raised]
                              ELSE IF CheckExposureSet(after) \/ cal.i + 1 = cal.max_iters
                                THEN [c EXCEPT !.pc = "check"]
                              ELSE [c EXCEPT !.i = cal.i + 1]
       /\ UNCHANGED <<lineVars, vxyVars, fitVars, poseVars, camVars, ss>>

\* lines 189-195: the search must have ended; the under-exposed value is set
Cal_finish ==
    LET idxs == GetExposureIdxs(cal.exposure_out) IN
    /\ cal.pc = "check"
    /\ cal' = IF idxs.raised # ""
                THEN [cal EXCEPT !.pc = "raised", !.raised = idxs.raised]
              ELSE IF ~CheckExposureSet(idxs)
                THEN [cal EXCEPT !.pc = "raised", !.raised = "ValueError"]
              ELSE [cal EXCEPT !.pc = "returned",
                               !.exposure_time = cal.values[FinalExposureIdx(idxs) + 1]]
    /\ UNCHANGED <<lineVars, vxyVars, fitVars, poseVars, camVars, ss>>

\* the call is over: the caller goes on
Cal_return ==
    /\ cal.pc \in {"returned", "raised"}
    /\ cal' = IdleCal
    /\ UNCHANGED <<lineVars, vxyVars, fitVars, poseVars, camVars, ss>>

(***************************************************************************)
(* contrib/scripts/sensitive_strings.py: SensitiveStringsSearcher.  A file *)
(* is its name, its extension, whether its path or its lines match a       *)
(* sensitive string, and, for an HDF5 file, the files it is unzipped to.   *)
(* FileFingerprint and FileCache are not part of the sources: a            *)
(* fingerprint and a cache entry are the name of the file.                 *)
(***************************************************************************)
\* the names of the model in sorted order: the files of the searched directory,
\* the files inside an HDF5 file, and a file that is in no directory
AllNames == <<"a.py", "b.png", "c.h5", "d.bin", "ds.png", "ds.txt", "gone.png">>

\* the place of a name in the sorted order
NameRank(name) == CHOOSE k \in 1..Len(AllNames) : AllNames[k] = name

NoSSFile == [name |-> "", ext |-> "", sensitive |-> FALSE, inner |-> <<>>]

SSFile(name, ext, sensitive, inner) ==
    [name |-> name, ext |-> ext, sensitive |-> sensitive, inner |-> inner]

\* the files that are there, of a tuple of files and NoSSFile
Present(t) == SelectSeq(t, LAMBDA f : f # NoSSFile)

\* the directories an HDF5 file is unzipped to: datasets as images and as text
InnerDirs ==
    {d \in {Present(<<g, t>>) :
                g \in {NoSSFile} \cup {SSFile("ds.png", ".png", s, <<>>) : s \in BOOLEAN},
                t \in {NoSSFile} \cup {SSFile("ds.txt", ".txt", s, <<>>) : s \in BOOLEAN}} :
        Len(d) <= MaxInner}

\* the directories searched: files = sorted(files), line 324
RootDirs ==
    {d \in {Present(<<p, g, h, b>>) :
                p \in {NoSSFile} \cup {SSFile("a.py", ".py", s, <<>>) : s \in BOOLEAN},
                g \in {NoSSFile} \cup {SSFile("b.png", ".png", s, <<>>) : s \in BOOLEAN},
                h \in {NoSSFile} \cup {SSFile("c.h5", ".h5", FALSE, i) : i \in InnerDirs},
                b \in {NoSSFile} \cup {SSFile("d.bin", ".bin", FALSE, <<>>)}} :
        Len(d) <= MaxFiles}

\* sorted(names), for a set of names
RECURSIVE SortedNames(_)
SortedNames(S) ==
    IF S = {} THEN <<>>
    ELSE LET first == CHOOSE x \in S : \A y \in S : NameRank(x) <= NameRank(y)
         IN <<first>> \o SortedNames(S \ {first})

\* the elements of a list
Elems(list) == {list[k] : k \in 1..Len(list)}

\* list.remove(x), x in the list
ListRemove(list, x) ==
    LET k == CHOOSE j \in 1..Len(list) :
                list[j] = x /\ \A i \in 1..(j - 1) : list[i] # x
    IN SubSeq(list, 1, k - 1) \o SubSeq(list, k + 1, Len(list))

\* the rows an allowed-binary-files CSV can hold before a run: binary files of the
\* directory and a file that is not there
AllowedLists ==
    {SortedNames(S) : S \in {T \in SUBSET {"b.png", "c.h5", "d.bin", "gone.png"} :
                                Cardinality(T) <= MaxAllowed}}

\* the files a valid cleared-files cache can name before a run: files that had
\* no match when they were cached (line 336) and are as they were
CachedSets(files) ==
    {S \in SUBSET {f.name : f \in {g \in Elems(files) : ~g.sensitive}} :
        Cardinality(S) <= MaxCached}

\* _is_img_ext(ext): the extension is one of it.pil_image_formats_rw
IsImgExt(ext) == ext = ".png"

\* parse_file lines 73-91: is_binary_file
IsBinaryFile(f) ==
    IF IsImgExt(f.ext) THEN TRUE        \* no image extension is a text extension
    ELSE f.ext \notin {".py", ".txt"}   \* read_text_file raises UnicodeDecodeError

\* a file that does not exist
NoCsv == <<"no file">>

\* a SensitiveStringsSearcher after __init__, lines 28-45, with the files its
\* paths name and the locals of search_files
IdleSearcher ==
    [pc |-> "idle", raised |-> "", ret |-> 0,
     interactive |-> FALSE,
     files |-> <<>>,                    \* the files of root_search_dir, sorted
     csv |-> <<>>,                      \* the rows of allowed_binary_files_csv
     backup |-> NoCsv,                  \* <name>_backup_<date_time_str><ext>
     stamped |-> NoCsv,                 \* <name>_<date_time_str><ext>
     cache_file_csv |-> "None",         \* "None" or "given"
     cache |-> NoCsv,                   \* the rows of the cache file
     copy_overwrites |-> FALSE,         \* ft.copy_file onto a file that exists
                                        \* overwrites it, or else raises
     matches |-> <<>>,                  \* self.matches
     allowed_binary_files |-> <<>>,
     accepted_binary_files |-> <<>>,
     unknown_binary_files |-> <<>>,
     unfound_allowed_binary_files |-> <<>>,
     cached_cleared_files |-> <<>>,
     new_cached_cleared_files |-> <<>>,
     local_matches |-> <<>>,            \* the local matches of search_files
     k |-> 0,                           \* place in the loop of line 328
     unknowns_copy |-> <<>>,
     u |-> 0,                           \* place in the loop of line 355
     csv_start |-> <<>>,                \* history: the rows of the CSV at the call
     log |-> <<>>,                      \* history: "backup", "overwrite", "stamp"
     signed |-> 0]                      \* history: files signed off in the call

\* _init_files_lists(), lines 294-312, for a searcher whose CSV files hold rows
\* and cached; a cache without the entry of the sensitive strings file is cleared,
\* which is a cache that names no file
InitFilesLists(self) ==
    [self EXCEPT
        !.matches = <<>>,
        !.allowed_binary_files = self.csv,
        !.accepted_binary_files = <<>>,
        !.unknown_binary_files = <<>>,
        !.unfound_allowed_binary_files = self.csv,
        !.cached_cleared_files =
            IF self.cache_file_csv # "None" /\ self.cache # NoCsv
                THEN self.cache ELSE <<>>,
        !.new_cached_cleared_files = <<"sensitive_strings.csv">>]

\* search_files() lines 315-327, the files already listed and sorted
SearchFilesBegin(self) ==
    [InitFilesLists(self) EXCEPT
        !.pc = "files", !.k = 1, !.local_matches = <<>>,
        !.csv_start = self.csv, !.log = <<>>, !.signed = 0,
        !.ret = 0, !.raised = ""]

\* search_file(path, name + ext), lines 119-125, after parse_file: the matches of
\* the path and of the lines
SearchLines(f) == IF f.sensitive THEN <<"sensitive string">> ELSE <<>>

\* parse_file(), lines 93-107: a binary file is accepted or unknown
ParseFile(self, f) ==
    IF ~IsBinaryFile(f) THEN self
    ELSE IF f.name \in Elems(self.allowed_binary_files)
        THEN IF f.name \notin Elems(self.unfound_allowed_binary_files)
            THEN [self EXCEPT !.pc = "raised", !.raised = "ValueError"]
            ELSE [self EXCEPT
                    !.unfound_allowed_binary_files = ListRemove(@, f.name),
                    !.accepted_binary_files = Append(@, f.name)]
    ELSE [self EXCEPT !.unknown_binary_files = Append(@, f.name)]

\* one pass of the loop of lines 328-337
SearchFilePass(self) ==
    LET f == self.files[self.k] IN
    IF f.name \in Elems(self.cached_cleared_files)
        THEN [self EXCEPT !.k = self.k + 1]
    ELSE LET parsed == ParseFile(self, f)
             file_matches == SearchLines(f)
         IN IF parsed.pc = "raised" THEN parsed
            ELSE IF Len(file_matches) > 0
                THEN [parsed EXCEPT !.k = self.k + 1,
                        !.local_matches = Append(@, <<f.name, file_matches>>)]
            ELSE [parsed EXCEPT !.k = self.k + 1,
                    !.cached_cleared_files = Append(@, f.name),
                    !.new_cached_cleared_files = Append(@, f.name)]

\* ft.copy_file(csv, dest): the rows of dest after the call, or "raised" when dest
\* exists and copy_file does not overwrite
CopyFile(self, dest) ==
    IF dest # NoCsv /\ ~self.copy_overwrites THEN <<"raised">> ELSE self.csv

\* line 358: num_signed_binary_files = 0, in every pass of the loop
NumSignedBinaryFiles(self) == 0

\* lines 361-388 of a pass of the loop of line 355, for file_ff and the matches
\* search_binary_file returned
SignOffOrReport(self, file_ff, parsable_matches) ==
    IF Len(parsable_matches) > 0
        THEN [self EXCEPT !.u = self.u + 1]
    ELSE
        LET num_signed_binary_files == NumSignedBinaryFiles(self)
            removed == [self EXCEPT
                            !.unknown_binary_files = ListRemove(@, file_ff),
                            !.allowed_binary_files = Append(@, file_ff)]
            backup == IF num_signed_binary_files = 0
                        THEN CopyFile(removed, removed.backup)
                        ELSE removed.backup
            backed == [removed EXCEPT
                        !.backup = backup,
                        !.log = IF num_signed_binary_files = 0
                                    THEN Append(@, "backup") ELSE @]
            rows == SortedNames(Elems(backed.allowed_binary_files))
            written == [backed EXCEPT
                            !.allowed_binary_files = rows,
                            !.csv = rows,
                            !.log = Append(@, "overwrite"),
                            !.signed = @ + 1]
            stamped == CopyFile(written, written.stamped)
        IN IF backup = <<"raised">>
            THEN [removed EXCEPT !.pc = "raised", !.raised = "FileExistsError"]
           ELSE IF stamped = <<"raised">>
            THEN [written EXCEPT !.pc = "raised", !.raised = "FileExistsError"]
           ELSE [written EXCEPT !.stamped = stamped,
                                !.log = Append(@, "stamp"),
                                !.u = self.u + 1]

\* mutant: the unknown binary files are left out of the count
ReturnedCount_NoUnknown(self) ==
    Len(self.local_matches) + Len(self.unfound_allowed_binary_files)

\* line 403: ret
ReturnedCount(self) ==
    Len(self.local_matches) + Len(self.unfound_allowed_binary_files)
        + Len(self.unknown_binary_files)

\* lines 413-420: matches[fpne].append(Match(...)) for every fpne of the list
RECURSIVE AddMatches(_, _, _)
AddMatches(matches, list, msg) ==
    IF list = <<>> THEN matches
    ELSE LET fpne == Head(list)
             old == IF DictHas(matches, fpne) THEN DictGet(matches, fpne) ELSE <<>>
         IN AddMatches(DictSet(matches, fpne, Append(old, msg)), Tail(list), msg)

\* lines 390-423 of search_files
SearchFilesEnd(self) ==
    LET new_cached == SelectSeq(self.new_cached_cleared_files,
                        LAMBDA file_cf : file_cf \notin Elems(self.unknown_binary_files))
        matches == AddMatches(
                    AddMatches(self.local_matches, self.unfound_allowed_binary_files,
                               "Unfound binary file"),
                    self.unknown_binary_files, "Unknown binary file (summary)")
    IN [self EXCEPT
            !.new_cached_cleared_files = new_cached,
            !.cache = IF self.cache_file_csv # "None" /\ Len(new_cached) > 0
                        THEN new_cached ELSE @,
            !.ret = ReturnedCount(self),
            !.local_matches = matches,
            !.matches = matches,
            !.pc = "returned"]

\* the searcher that is searching, and the searchers with it replaced
Top == ss[Len(ss)]
SetTop(self) == [ss EXCEPT ![Len(ss)] = self]

\* an exception leaves every call: the searcher called first is left as it is
Raised(name) == <<[ss[1] EXCEPT !.pc = "raised", !.raised = name]>>

otherVars == <<lineVars, vxyVars, fitVars, poseVars, camVars, cal>>

\* the searchers after the searching one got to frame self, which may have raised
Continue(self) ==
    IF self.pc = "raised" /\ Len(ss) > 1 THEN Raised(self.raised) ELSE SetTop(self)

\* the file of a fingerprint
FileOf(self, file_ff) == CHOOSE f \in Elems(self.files) : f.name = file_ff

\* the file of the pass the loop of line 355 is in
UnknownFile(self) == FileOf(self, self.unknowns_copy[self.u])

\* searcher.search_files() is called on a new searcher, as in lines 440-443, or
\* one with interactive left False and no cache file
SS_search_files ==
    /\ Len(ss) = 1
    /\ Top.pc = "idle"
    /\ \E files \in RootDirs, rows \in AllowedLists, interactive \in BOOLEAN,
          cache_file_csv \in {"None", "given"}, copy_overwrites \in BOOLEAN :
        \E cached \in CachedSets(files) :
            /\ cache_file_csv = "None" => cached = {}
            /\ ss' = <<SearchFilesBegin(
                        [IdleSearcher EXCEPT
                            !.files = files, !.csv = rows,
                            !.interactive = interactive,
                            !.cache_file_csv = cache_file_csv,
                            !.cache = IF cache_file_csv = "None" THEN NoCsv
                                      ELSE SortedNames(cached),
                            !.copy_overwrites = copy_overwrites])>>
    /\ UNCHANGED otherVars

\* one pass of the loop of lines 328-337
SS_search_file ==
    /\ Top.pc = "files"
    /\ Top.k <= Len(Top.files)
    /\ ss' = Continue(SearchFilePass(Top))
    /\ UNCHANGED otherVars

\* lines 339-354: the loop is over, the unknown binary files are copied
SS_unknowns_copy ==
    /\ Top.pc = "files"
    /\ Top.k > Len(Top.files)
    /\ ss' = SetTop([Top EXCEPT !.pc = "unknowns",
                                !.unknowns_copy = Top.unknown_binary_files,
                                !.u = 1])
    /\ UNCHANGED otherVars

\* a pass of the loop of line 355 for an image: search_binary_file lines 216-223
\* with interactive_image_sign_off, then lines 361-388
SS_search_image_file ==
    /\ Top.pc = "unknowns"
    /\ Top.u <= Len(Top.unknowns_copy)
    /\ IsImgExt(UnknownFile(Top).ext)
    /\ \E key \in {"y", "n", "?"} :
        LET parsable_matches ==
                IF Top.interactive
                    THEN IF key = "y" THEN <<>> ELSE <<"File denied by user">>
                    ELSE <<"Unknown image file">>
        IN /\ ~Top.interactive => key = "?"
           /\ ss' = Continue(SignOffOrReport(Top, UnknownFile(Top).name,
                                             parsable_matches))
    /\ UNCHANGED otherVars

\* a pass of the loop of line 355 for a binary file that is neither an image nor
\* an HDF5 file: search_binary_file lines 228-236, then lines 361-388; input("")[0]
\* of an empty line raises IndexError
SS_search_other_file ==
    /\ Top.pc = "unknowns"
    /\ Top.u <= Len(Top.unknowns_copy)
    /\ ~IsImgExt(UnknownFile(Top).ext)
    /\ UnknownFile(Top).ext # ".h5"
    /\ \E val \in {"y", "n", ""} :
        ss' = IF val = ""
                THEN Continue([Top EXCEPT !.pc = "raised", !.raised = "IndexError"])
              ELSE Continue(SignOffOrReport(Top, UnknownFile(Top).name,
                        IF val = "y" THEN <<>> ELSE <<"Unknown binary file">>))
    /\ UNCHANGED otherVars

\* a pass of the loop of line 355 for an HDF5 file: search_hdf5_file lines 139-163,
\* a searcher for the unzipped directory is made, with a CSV of the header line
\* only and no cache file, and its search_files() is called
SS_search_hdf5_file ==
    /\ Len(ss) = 1
    /\ Top.pc = "unknowns"
    /\ Top.u <= Len(Top.unknowns_copy)
    /\ UnknownFile(Top).ext = ".h5"
    /\ ss' = <<[Top EXCEPT !.pc = "hdf5"],
               SearchFilesBegin(
                    [IdleSearcher EXCEPT
                        !.files = UnknownFile(Top).inner,
                        !.interactive = Top.interactive,
                        !.copy_overwrites = Top.copy_overwrites])>>
    /\ UNCHANGED otherVars

\* search_hdf5_file lines 164-208 after hdf5_searcher.search_files() returned,
\* then lines 361-388 of the searcher that called it; match.msg of a list raises
\* AttributeError
SS_hdf5_result ==
    /\ Len(ss) = 2
    /\ Top.pc = "returned"
    /\ LET self == [ss[1] EXCEPT !.pc = "unknowns"]
           error == Top.ret
           hdf5_matches == Top.matches
       IN \E val \in {"y", "n", ""} :
            /\ ~(error # 0 /\ Len(hdf5_matches) > 0 /\ self.interactive) => val = "y"
            /\ ss' =
                IF error # 0
                    THEN IF Len(hdf5_matches) > 0
                        THEN IF self.interactive
                            THEN IF val = "" THEN Raised("IndexError")
                                 ELSE <<SignOffOrReport(self, UnknownFile(self).name,
                                        IF val = "y" THEN <<>>
                                        ELSE <<"HDF5 file denied by user">>)>>
                            ELSE Raised("AttributeError")
                        ELSE Raised("RuntimeError")
                ELSE IF Len(hdf5_matches) > 0
                    THEN Raised("RuntimeError")
                    ELSE <<SignOffOrReport(self, UnknownFile(self).name, <<>>)>>
    /\ UNCHANGED otherVars

\* lines 390-423: the loop of line 355 is over
SS_search_files_end ==
    /\ Top.pc = "unknowns"
    /\ Top.u > Len(Top.unknowns_copy)
    /\ ss' = SetTop(SearchFilesEnd(Top))
    /\ UNCHANGED otherVars

\* the call is over: the caller goes on
SS_return ==
    /\ Len(ss) = 1
    /\ Top.pc \in {"returned", "raised"}
    /\ ss' = <<IdleSearcher>>
    /\ UNCHANGED otherVars

\* no object constructed yet
Init ==
    /\ lineA = NoLine
    /\ lout = NoOut
    /\ vxy = NoData
    /\ vout = NoVOut
    /\ vcalls = 0
    /\ fit = [w \in Workers |-> IdleFrame]
    /\ np_global = [state |-> 0, draws |-> 0]
    /\ memo = [set |-> FALSE, out |-> Outcome(IdleFrame)]
    /\ pose = InitialPose
    /\ ptrace = <<<<"Initial", 0>>>>
    /\ registry = [instances |-> <<>>, next_instance_idx |-> 0]
    /\ cameras = <<>>
    /\ cout = NoCOut
    /\ chist = <<>>
    /\ cal = IdleCal
    /\ ss = <<IdleSearcher>>

NextLine ==
    \/ Line__init__
    \/ Line_from_two_points
    \/ Line_flip
    \/ Line_flip_in_place
    \/ Line_intersect_with

NextVxy ==
    \/ Vxy__init__
    \/ Vxy_normalize
    \/ Vxy_normalize_in_place
    \/ Vxy_rotate_in_place
    \/ Vxy_rotate_about_in_place

\* the steps of a call of fit_from_points
FitSteps(w) ==
    \/ Fit_sample(w)
    \/ Fit_redraw(w)
    \/ Fit_trial(w)
    \/ Fit_refine(w)
    \/ Fit_return(w)

\* one caller of fit_from_points
NextFit ==
    \/ Fit_call(1, PointKinds, FitSizes)
    \/ FitSteps(1)

\* one caller that repeats calls on a set of 16 points with an outlier, the first
\* completed call remembered, and other code that uses the global generator
NextFitRepeat ==
    \/ Fit_call(1, {"near"}, {NoFitMax + 1})
    \/ FitSteps(1)
    \/ Fit_remember(1)
    \/ Env_np_random

\* one caller with 16 points of which every point is there twice, or all are the
\* same point
NextFitSame ==
    \/ Fit_call(1, {"pairs", "same"}, {NoFitMax + 1})
    \/ FitSteps(1)

\* two workers, one image each: worker 1 repeats calls on 16 points with an outlier
\* and a positive distance, its first call, made alone, is remembered; then worker
\* 2 makes that call again and again while worker 1 goes on, the steps of the two
\* executions interleaved in every way
NextFitPar ==
    \/ Fit_call(1, {"near"}, {NoFitMax + 1}) /\ fit'[1].nd > 0
    \/ FitSteps(1)
    \/ Fit_remember(1)
    \/ Fit_call_again(2)
    \/ FitSteps(2)

\* the registry: cameras are constructed, looked up and closed
NextCam ==
    \/ Cam__init__
    \/ Cam_instance
    \/ Cam_instances
    \/ Cam_close
    \/ Cam_close_end

\* one camera and its on_close list
NextCamClose ==
    \/ Cam__init__ /\ cameras = <<>>
    \/ Cam_on_close_append
    \/ Cam_close
    \/ Cam_close_callback
    \/ Cam_close_end

\* calls of calibrate_exposure
NextCal ==
    \/ Cal_call
    \/ Cal_check_min
    \/ Cal_check_max
    \/ Cal_iter
    \/ Cal_finish
    \/ Cal_return

\* calls of search_files
NextSS ==
    \/ SS_search_files
    \/ SS_search_file
    \/ SS_unknowns_copy
    \/ SS_search_image_file
    \/ SS_search_other_file
    \/ SS_search_hdf5_file
    \/ SS_hdf5_result
    \/ SS_search_files_end
    \/ SS_return

NextPose ==
    \/ Pose_t_from_distance
    \/ Pose_r_from_position
    \/ Pose_calc_rt_from_img_pts
    \/ Pose_refine_v_distance

SpecLine == Init /\ [][NextLine]_vars
SpecFitPar == Init /\ [][NextFitPar]_vars
SpecCam == Init /\ [][NextCam]_vars
SpecCamClose == Init /\ [][NextCamClose]_vars
SpecCal == Init /\ [][NextCal]_vars
SpecSS == Init /\ [][NextSS]_vars
SpecPose == Init /\ [][NextPose]_vars

\* the solver is a sequential computation: it goes on until no step is left
SpecPoseFair == Init /\ [][NextPose]_vars /\ WF_vars(NextPose)
SpecFit == Init /\ [][NextFit]_vars
SpecFitRepeat == Init /\ [][NextFitRepeat]_vars

\* a call is a sequential computation: it goes on while a step is left
SpecFitSame == Init /\ [][NextFitSame]_vars /\ WF_vars(NextFitSame)
SpecVxy == Init /\ [][NextVxy]_vars

(***************************************************************************)
(* Properties of LineXY, checked under SpecLine.                           *)
(***************************************************************************)
\* the point (x / d, y / d) satisfies A x + B y + C = 0
OnLine(L, pt) == L.A * pt.x + L.B * pt.y + L.C * pt.d = 0

\* the LineXY objects of a state: the caller's line and the object returned last
LineObjects == {L \in {lineA, lout.ret} : L.kind = "LineXY"}

\* C5: from_two_points called with two coincident points fails with a domain
\* error (ValueError) instead of returning a line.
C5_CoincidentPointsRaise ==
    (lout.op = "from_two_points" /\ lout.coincident) => lout.raised = "ValueError"

\* C6: every LineXY object satisfies A*A + B*B = 1 once constructed and after any
\* sequence of flip() and flip_in_place(); flip returns the negated coefficients.
C6_AlwaysNormalized ==
    /\ \A L \in LineObjects : IsNormalized(L)
    /\ lout.op = "flip" =>
          /\ lout.ret.A = 0 - lout.self.A
          /\ lout.ret.B = 0 - lout.self.B
          /\ lout.ret.C = 0 - lout.self.C
          /\ lout.ret.m2 = lout.self.m2

\* C9: intersect_with never raises; for two lines with finite coefficients it
\* returns None exactly when they are parallel (A1 B2 = B1 A2; within the model's
\* coefficients no two non-parallel lines are closer than the 1e-10 tolerances),
\* and otherwise one finite point that lies on both lines; a vertical line and a
\* non-vertical line give a point, two vertical lines give None.  With a line of
\* nan coefficients no test for parallel lines is true and the value returned is
\* a Vxy of one column.
C9_IntersectNoneIffParallel ==
    lout.op = "intersect_with" =>
        LET L1 == lout.self
            L2 == lout.other
            pt == lout.ret
        IN /\ lout.raised = ""
           /\ IF IsFinite(L1) /\ IsFinite(L2)
                THEN IF L1.A * L2.B = L1.B * L2.A
                        THEN pt.kind = "None"
                        ELSE /\ pt.kind = "Vxy"
                             /\ pt.len = 1
                             /\ pt.d # 0
                             /\ OnLine(L1, pt)
                             /\ OnLine(L2, pt)
                ELSE pt.kind = "Vxy" /\ pt.len = 1

\* a vertical line (B = 0) intersected with a line that is not vertical gave a point
C9_Witness ==
    /\ lout.op = "intersect_with"
    /\ IsFinite(lout.self) /\ lout.self.B = 0
    /\ IsFinite(lout.other) /\ lout.other.B # 0 /\ lout.other.A # 0
    /\ lout.ret.kind = "Vxy"

(***************************************************************************)
(* Properties of LineXY.fit_from_points, checked under SpecFit and         *)
(* SpecFitRepeat.                                                          *)
(***************************************************************************)
LoopEnded(f) == f.pc = "refine"
InLoop(f) == f.pc \in {"trial", "redraw", "fit"}
CallOver(f) == f.pc \in {"returned", "raised"}

\* C1: fit_from_points fails exactly when it is given 15 points or fewer, with the
\* domain error (ValueError) and before any sampling; with 16 points or more it
\* does not fail.
C1_FailsIffAtMost15Points ==
    \A w \in Workers :
        LET f == fit[w] IN
        /\ f.pc = "raised" => (f.n <= 15 /\ f.raised = "ValueError" /\ f.draws = 0)
        /\ (CallOver(f) /\ f.n <= 15) => f.pc = "raised"

\* C2: the loop makes at most 1000 trials, and when it ends the retained mask and
\* the retained coefficients come from one and the same trial, whose inlier count
\* is at least that of every trial made.
C2_RetainedIsBestTrial ==
    \A w \in Workers :
        LET f == fit[w] IN
        /\ f.trials <= 1000
        /\ LoopEnded(f) =>
              /\ f.bound
              /\ f.mask_at >= 0
              /\ f.mask_at = f.abc_at
              /\ f.active_mask = MaskNeighbor(f.ABC_active, f.Pxy, f.nd)
              /\ MaskSum(f.active_mask) = f.max_active

\* C2, for the calls in which a candidate was retained: the statement of C2 holds
\* whenever some trial had an inlier.
C2_RetainedIsBestTrialIfAny ==
    \A w \in Workers :
        LET f == fit[w] IN
        /\ f.trials <= 1000
        /\ f.bound = (f.max_active > 0)
        /\ (LoopEnded(f) /\ f.bound) =>
              /\ f.mask_at >= 0
              /\ f.mask_at = f.abc_at
              /\ f.active_mask = MaskNeighbor(f.ABC_active, f.Pxy, f.nd)
              /\ MaskSum(f.active_mask) = f.max_active

\* C3: the loop stops at the first trial whose inlier count is above 99% of the
\* number of points, that trial's candidate is the one retained, and a loop in
\* which no trial is above 99% ends only after trial 1000.
C3_StopsAtFirstTrialAbove99 ==
    \A w \in Workers :
        LET f == fit[w] IN
        /\ InLoop(f) => (f.exceed_at = -1 /\ f.trials = f.idx)
        /\ LoopEnded(f) =>
              IF f.exceed_at >= 0
                THEN /\ f.trials = f.exceed_at + 1
                     /\ f.idx = f.exceed_at
                     /\ f.mask_at = f.exceed_at
                     /\ f.abc_at = f.exceed_at
                     /\ Above99(MaskSum(f.active_mask), f.n)
                ELSE f.trials = 1000

\* the loop ended at a trial above 99% that was not the first trial made
C3_Witness ==
    \E w \in Workers :
        LoopEnded(fit[w]) /\ fit[w].exceed_at > 0 /\ fit[w].trials = fit[w].exceed_at + 1

C14_InterleavedAsAlone ==
    /\ [](\A w \in Workers :
            LET f == fit[w] IN
            (/\ CallOver(f) /\ memo.set
             /\ f.Pxy = memo.out.Pxy /\ f.seed = memo.out.seed /\ f.nd = memo.out.nd)
            => (f.ret = memo.out.ret /\ f.raised = memo.out.raised))
    /\ [][\A w \in Workers :
            /\ fit'[w] # fit[w] =>
                    /\ \A v \in Workers \ {w} : fit'[v] = fit[v]
                    /\ np_global' = np_global
            /\ (fit[w].pc # "idle" /\ fit'[w].pc # "idle") => fit'[w].Pxy = fit[w].Pxy]_vars

\* worker 2 has the line of the remembered call while worker 1 is in the loop of a
\* call with another seed, past its first trial
C14_Witness ==
    /\ memo.set
    /\ fit[2].pc = "returned"
    /\ fit[2].ret = memo.out.ret
    /\ InLoop(fit[1])
    /\ fit[1].trials > 0
    /\ fit[1].seed # fit[2].seed

(***************************************************************************)
(* Properties of Vxy, checked under SpecVxy.                               *)
(***************************************************************************)
HasZeroVector(data) == \E i \in 1..Len(data) : data[i][1] = 0 /\ data[i][2] = 0
HasNonZeroVector(data) == \E i \in 1..Len(data) : data[i][1] # 0 \/ data[i][2] # 0

\* C7: normalize and normalize_in_place raise whenever a vector of the container
\* has zero magnitude, whatever the other vectors are, and then no vector is
\* normalized: the container keeps its data and no copy is returned.
C7_ZeroVectorRaises ==
    (vout.op \in {"normalize", "normalize_in_place"} /\ HasZeroVector(vout.before)) =>
        /\ vout.raised = "ValueError"
        /\ vxy = vout.before
        /\ vout.ret = NoData

\* normalize_in_place raised on a container of a zero and a non-zero vector
C7_Witness ==
    /\ vout.op = "normalize_in_place"
    /\ HasZeroVector(vout.before)
    /\ HasNonZeroVector(vout.before)
    /\ vout.raised = "ValueError"

\* C8: after an in-place operation that raised, the container's data is the data
\* it had before the call.
C8_NoPartialMutation ==
    (/\ vout.op \in {"normalize_in_place", "rotate_in_place", "rotate_about_in_place"}
     /\ vout.raised # "") => vxy = vout.before
(***************************************************************************)
(* Properties of the pose solver, checked under SpecPose.                  *)
(***************************************************************************)
\* entry k of the history may follow entry k - 1
PoseOrderAt(k) ==
    LET cur == ptrace[k]
        prev == ptrace[k - 1]
    IN CASE cur[1] = "DistanceEstimate" -> prev = <<"Initial", 0>>
         [] cur[1] = "ReprojectionRefine" ->
                \/ prev[1] = "DistanceEstimate" /\ cur[2] = 1
                \/ prev[1] = "DistanceRefine" /\ cur[2] = prev[2] + 1
         [] cur[1] = "DistanceRefine" -> prev = <<"ReprojectionRefine", cur[2]>>
         [] cur[1] = "Converged" -> prev = <<"DistanceRefine", cur[2]>>
         [] OTHER -> FALSE

\* C10: the pose solver visits Initial, DistanceEstimate, ReprojectionRefine,
\* DistanceRefine, then ReprojectionRefine and DistanceRefine in turn, and last
\* Converged; no state is skipped, a DistanceRefine follows the ReprojectionRefine
\* of its iteration, and nothing changes the pose once Converged is reached.
C10_PoseStateOrder ==
    /\ [](/\ ptrace[1] = <<"Initial", 0>>
          /\ ptrace[Len(ptrace)] = <<pose.state, pose.iter>>
          /\ \A k \in 2..Len(ptrace) : PoseOrderAt(k))
    /\ [][pose.state = "Converged" => pose' = pose]_vars

\* Converged was reached after more than one iteration of the loop
C10_Witness ==
    /\ pose.state = "Converged"
    /\ pose.iter > 1
    /\ Len(ptrace) = 3 + 2 * pose.iter

\* C11: the loop of ReprojectionRefine and DistanceRefine ends: the iterations never
\* exceed the cap, the DistanceRefine that leaves both errors below the tolerance
\* is the last one, a loop that ends otherwise has made the cap's iterations, and
\* Converged is reached.
C11_PoseLoopTerminates ==
    /\ [](pose.iter <= PoseIterCap)
    /\ [][pose.state = "DistanceRefine" =>
            /\ PoseConverged(pose'.reproj_err, pose'.dist_err) => pose'.state = "Converged"
            /\ pose'.state = "Converged" =>
                    \/ PoseConverged(pose'.reproj_err, pose'.dist_err)
                    \/ pose'.iter = PoseIterCap]_vars
    /\ <>(pose.state = "Converged")

\* the loop was ended by the cap, the errors still at or above the tolerance
C11_Witness ==
    /\ pose.state = "Converged"
    /\ pose.iter = PoseIterCap
    /\ ~PoseConverged(pose.reproj_err, pose.dist_err)

\* C12: a DistanceRefine step leaves the rotation as the preceding
\* ReprojectionRefine step produced it.
C12_DistanceRefineKeepsRotation ==
    [][pose.state = "DistanceRefine" => pose'.rot = pose.rot]_vars

\* a DistanceRefine step has changed the translation of a pose
C12_Witness ==
    /\ Len(ptrace) > 1
    /\ ptrace[Len(ptrace) - 1][1] = "DistanceRefine"
    /\ pose.rot # pose.trans
    /\ pose.rot # 0

(***************************************************************************)
(* Properties of the camera registry, checked under SpecCam, and of        *)
(* close(), checked under SpecCamClose.                                    *)
(***************************************************************************)
\* the cameras the registry holds, and the index a camera was registered under
Registered == {registry.instances[k][2] : k \in 1..Len(registry.instances)}
IndexOf(c) == CHOOSE idx \in 0..Len(chist) : idx < Len(chist) /\ chist[idx + 1] = c

\* what instance(idx) is to return: the camera first registered under idx while it
\* is open, None otherwise
RegisteredOrNone(idx) ==
    IF idx + 1 <= Len(chist) /\ ~cameras[chist[idx + 1]].is_closed
        THEN chist[idx + 1] ELSE NoCamera

\* C15: instance(idx) is the camera that was registered under idx when idx was
\* assigned, as long as that camera is open, and None once it is closed; None for
\* an index never assigned; the last instance(idx) call returned just that.
C15_InstanceIsRegisteredOrNone ==
    /\ \A idx \in 0..MaxCams :
            Instance(registry.instances, cameras, idx) = RegisteredOrNone(idx)
    /\ (cout.op = "instance" /\ cout.arg # NoIdx) => cout.ret = RegisteredOrNone(cout.arg)

\* instance(0) returned None: the camera of index 0 is closed, and the camera
\* constructed for the same device after it is open under index 1
C15_Witness ==
    /\ cout.op = "instance" /\ cout.arg = 0 /\ cout.ret = NoCamera
    /\ Len(cameras) >= 2
    /\ cameras[1].is_closed /\ ~cameras[2].is_closed
    /\ cameras[1].basler_index = cameras[2].basler_index

\* C16: no two open registered cameras have the same basler_index; a construction
\* for a device that an open registered camera has raises RuntimeError and leaves
\* the registry, its next index and the cameras as they were; a construction for a
\* device whose cameras are all closed (the device opening) registers the camera.
C16_OneOpenCameraPerDevice ==
    /\ [](/\ \A c1 \in Registered, c2 \in Registered :
                (/\ c1 # c2 /\ ~cameras[c1].is_closed /\ ~cameras[c2].is_closed)
                => cameras[c1].basler_index # cameras[c2].basler_index
          /\ (cout.op = "__init__" /\ cout.matched) =>
                (cout.raised = "RuntimeError" /\ cout.ret = NoCamera)
          /\ (cout.op = "__init__" /\ ~cout.matched /\ cout.connects
                    /\ cout.arg < MaxDevices) =>
                /\ cout.raised # "RuntimeError"
                /\ cout.ret \in Registered
                /\ ~cameras[cout.ret].is_closed
                /\ cameras[cout.ret].basler_index = cout.arg)
    /\ [][(cout'.op = "__init__" /\ cout'.matched) =>
                (registry' = registry /\ cameras' = cameras)]_vars

\* a camera was constructed and registered for a device whose earlier camera is
\* closed
C16_Witness ==
    /\ cout.op = "__init__" /\ cout.raised = "" /\ cout.ret # NoCamera
    /\ \E c \in Registered :
            /\ c # cout.ret
            /\ cameras[c].is_closed
            /\ cameras[c].basler_index = cout.arg

\* C17: for every subclass, instances(subclass) holds the registered cameras that
\* are not closed and are instances of the subclass, no camera twice, in the order
\* of their indices; the last instances() call returned just that.
C17_InstancesAreTheOpenCameras ==
    /\ \A subclass \in Subclasses :
        LET ret == Instances(registry.instances, cameras, subclass) IN
        /\ {ret[k] : k \in 1..Len(ret)} =
                {c \in Registered :
                    /\ ~cameras[c].is_closed
                    /\ subclass = "None" \/ IsInstance(cameras[c].cls, subclass)}
        /\ \A j \in 1..Len(ret), k \in 1..Len(ret) :
                j < k => IndexOf(ret[j]) < IndexOf(ret[k])
    /\ cout.op = "instances" =>
            cout.list = Instances(registry.instances, cameras, cout.subclass)

\* instances() returned the two open cameras and not the closed one registered
\* between them
C17_Witness ==
    /\ cout.op = "instances" /\ cout.subclass = "None"
    /\ Len(cameras) = 3
    /\ cameras[2].is_closed
    /\ cout.list = <<1, 3>>

\* C18: instance(None) is the open camera of the lowest index, and None exactly
\* when no registered camera is open.
C18_InstanceNoneIsFirstOpen ==
    LET open == {idx \in 0..(Len(chist) - 1) : ~cameras[chist[idx + 1]].is_closed}
        ret == Instance(registry.instances, cameras, NoIdx)
    IN /\ ret = NoCamera <=> open = {}
       /\ open # {} => ret = chist[(CHOOSE idx \in open : \A j \in open : idx <= j) + 1]
       /\ (cout.op = "instance" /\ cout.arg = NoIdx) => cout.ret = ret

\* instance(None) returned the camera of index 1, the camera of index 0 being closed
C18_Witness ==
    /\ cout.op = "instance" /\ cout.arg = NoIdx
    /\ Len(cameras) >= 2
    /\ cameras[1].is_closed
    /\ cout.ret = 2

\* the first n entries of a list
Prefix(list, n) == SubSeq(list, 1, n)

\* C19: a camera that was never closed has had no callback invoked; the first
\* close() invokes the entries its on_close list holds, one after the other in
\* list order, each once; a close() of a closed camera invokes nothing and changes
\* nothing, also when entries were appended since.
C19_CallbacksOnceAtFirstClose ==
    /\ [](\A c \in 1..Len(cameras) :
            LET camera == cameras[c] IN
            /\ ~camera.is_closed => camera.invoked = <<>>
            /\ camera.is_closed =>
                /\ camera.at_close = Prefix(camera.on_close, Len(camera.at_close))
                /\ camera.invoked =
                        IF camera.close_pc = 0 THEN camera.at_close
                        ELSE Prefix(camera.at_close, camera.close_pc - 1))
    /\ [][(/\ cout'.op = "close"
           /\ cout'.arg \in 1..Len(cameras)
           /\ cameras[cout'.arg].is_closed)
          => (cameras' = cameras /\ registry' = registry)]_vars

\* close() was called on a closed camera whose list held the same callback twice:
\* it was invoked twice, by the first close()
C19_Witness ==
    /\ cout.op = "close"
    /\ Len(cameras) = 1
    /\ cameras[1].is_closed /\ cameras[1].close_pc = 0
    /\ cameras[1].on_close = <<"counts", "counts">>
    /\ cameras[1].invoked = <<"counts", "counts">>

(***************************************************************************)
(* Properties of calibrate_exposure, checked under SpecCal.                *)
(***************************************************************************)
\* the scene saturates the frame at an exposure value
SaturatedAt(c, exposure) == CheckSaturated(c.scene[exposure], ImSize)

\* saturation is monotone in the exposure value, over the calibration values
MonotoneScene(c) ==
    /\ ~c.noisy
    /\ \A j \in 1..Len(c.values), k \in 1..Len(c.values) :
            (c.values[j] <= c.values[k] /\ SaturatedAt(c, c.values[j]))
            => SaturatedAt(c, c.values[k])

\* C20: after a normal return exposure_time is the calibration value of an index
\* whose frame was tested not saturated while the frame of the next index was
\* tested saturated; when saturation is monotone in the exposure value it is the
\* largest calibration value whose frame is not saturated, a frame being saturated
\* when more than 1% of its pixels are above 95% of max_value.
C20_ExposureIsLastUnsaturated ==
    cal.pc = "returned" =>
        /\ \E i \in 1..(Len(cal.values) - 1) :
                /\ cal.exposure_time = cal.values[i]
                /\ cal.tested[i] = "unsat"
                /\ cal.tested[i + 1] = "sat"
        /\ MonotoneScene(cal) =>
                /\ cal.scene[cal.exposure_time] * 100 <= ImSize
                /\ \A k \in 1..Len(cal.values) :
                        cal.scene[cal.values[k]] * 100 <= ImSize
                        => cal.values[k] <= cal.exposure_time

\* the search returned a value that is not the minimum, after two passes of the
\* loop, for a monotone scene whose frame at that value has just 1% bright pixels
C20_Witness ==
    /\ cal.pc = "returned"
    /\ MonotoneScene(cal)
    /\ cal.steps >= 2
    /\ cal.exposure_time > cal.values[1]
    /\ cal.scene[cal.exposure_time] * 100 = ImSize

\* more than 1% of the pixels of a frame are above 95% of max_value
FrameSaturated(bright) == 100 * bright > ImSize

\* C21: the first frame of a call is taken at the minimum calibration value and
\* the second at the maximum; when the first is saturated, or the second is not,
\* the call has raised ValueError with that frame its last and no pass of the
\* search loop made, so that such a call captures at most two frames.
C21_BoundsCheckedBeforeSearch ==
    LET n == Len(cal.values)
        order == cal.order
        failed == /\ cal.pc = "raised"
                  /\ cal.raised = "ValueError"
                  /\ cal.steps = 0
    IN /\ Len(order) >= 1 => order[1][1] = 0
       /\ Len(order) >= 2 => order[2][1] = n - 1
       /\ (Len(order) >= 1 /\ FrameSaturated(order[1][2]))
            => (failed /\ cal.frames = 1 /\ Len(order) = 1)
       /\ (Len(order) >= 2 /\ ~FrameSaturated(order[2][2]))
            => (failed /\ cal.frames = 2 /\ Len(order) = 2)

\* a call raised ValueError after two frames: the frame at the maximum of three
\* or more values had just 1% of its pixels bright
C21_Witness ==
    /\ cal.pc = "raised" /\ cal.raised = "ValueError"
    /\ Len(cal.values) >= 3
    /\ Len(cal.order) = 2
    /\ cal.order[2] = <<Len(cal.values) - 1, ImSize \div 100>>

(***************************************************************************)
(* Properties of SensitiveStringsSearcher.search_files, checked under      *)
(* SpecSS.                                                                 *)
(***************************************************************************)
\* the files of a searcher whose path or lines match a sensitive string
SensitiveFiles(self) == {f.name : f \in {g \in Elems(self.files) : g.sensitive}}

\* C22: when search_files has returned, of the searcher called or of the searcher
\* made for an HDF5 file, the returned count is 0 if and only if self.matches is
\* empty; every file with a sensitive-string match, every allowed binary file not
\* found and every unknown binary file left has an entry in self.matches and makes
\* the count positive; and no call raises the RuntimeError of search_hdf5_file.
C22_ZeroIffNoMatches ==
    /\ \A i \in 1..Len(ss) :
        LET self == ss[i] IN
        self.pc = "returned" =>
            /\ (self.ret = 0) <=> (self.matches = <<>>)
            /\ \A name \in SensitiveFiles(self)
                        \cup Elems(self.unfound_allowed_binary_files)
                        \cup Elems(self.unknown_binary_files) :
                    /\ DictHas(self.matches, name)
                    /\ self.ret > 0
    /\ ss[1].raised # "RuntimeError"

\* the searcher of an HDF5 file returned 2 for one image whose path matches a
\* sensitive string and which stays unknown: one entry of two matches
C22_Witness ==
    /\ Len(ss) = 2
    /\ ss[2].pc = "returned"
    /\ ss[2].ret = 2
    /\ Len(ss[2].matches) = 1
    /\ Len(ss[2].matches[1][2]) = 2
    /\ ss[2].unknown_binary_files = <<"ds.png">>

\* the number of entries of a list that are x
RECURSIVE CountOf(_, _)
CountOf(list, x) ==
    IF list = <<>> THEN 0
    ELSE (IF Head(list) = x THEN 1 ELSE 0) + CountOf(Tail(list), x)

\* C23: when a run of search_files in which files were signed off is over, the
\* backup of the allowed-binary-files CSV was copied exactly once, before the CSV
\* was first overwritten, and holds the rows the CSV had when the run began.
C23_BackupHoldsStartOfRun ==
    \A i \in 1..Len(ss) :
        LET self == ss[i] IN
        (self.pc \in {"returned", "raised"} /\ self.signed >= 1) =>
            /\ CountOf(self.log, "backup") = 1
            /\ self.log[1] = "backup"
            /\ self.backup = self.csv_start

(***************************************************************************)
(* Termination of fit_from_points, checked under SpecFitSame.              *)
(***************************************************************************)
\* C24: a call of fit_from_points with 16 points, many or all of them with the
\* same coordinates, comes to its end: whenever the loop that draws i2 again is
\* entered it is left for the fit of the trial, and the call returns or raises.
C24_RedrawLoopEnds ==
    /\ (fit[1].pc = "redraw") ~> (fit[1].pc = "fit")
    /\ (fit[1].pc = "trial") ~> (fit[1].pc \in {"returned", "raised"})

\* the call passed the checks of the minimum and of the maximum value: the search
\* has begun
SearchBegun(c) ==
    \/ c.pc \in {"loop", "check", "returned"}
    \/ c.pc = "raised" /\ Len(c.order) >= 2 /\ FrameSaturated(c.order[2][2])

====
